---- MODULE Spec2Model ----
(***************************************************************************)
(* Model of poptimizer: the example-set builder (ml/examples.py), the      *)
(* forecast cache guard and covariance check exercised by                  *)
(* ml/tests/test_forecaster.py, and the MOEX data managers                 *)
(* (store/moex.py).                                                        *)
(***************************************************************************)
EXTENDS Integers, Sequences, FiniteSets, TLC

(***************************************************************************)
(* Bounds of the model.                                                    *)
(***************************************************************************)
MaxDate == 5
MaxLabelDays == 2
MaxBad == 2
MaxCacheTickers == 2
MaxScaler == 3
NumThreads == 3
MaxCalls == 2
MaxCandles == 3
MaxFeatures == 2

(***************************************************************************)
(* Generic helpers standing for Python / pandas primitives.                *)
(***************************************************************************)
\* pandas missing value
NaN == -1

Min(a, b) == IF a < b THEN a ELSE b

\* Python sequence indexing s[i] with a 0-based, possibly negative index:
\* PyIndexOk says whether it is in range (otherwise IndexError is raised).
PyPos(s, i) == IF i < 0 THEN i + Len(s) ELSE i
PyIndexOk(s, i) == PyPos(s, i) >= 0 /\ PyPos(s, i) < Len(s)
PyIndex(s, i) == s[PyPos(s, i) + 1]

\* s[k:] for a 0-based k >= 0
PyTail(s, k) == SubSeq(s, k + 1, Len(s))

RECURSIVE Flatten(_)
Flatten(ss) == IF ss = <<>> THEN <<>> ELSE Head(ss) \o Flatten(Tail(ss))

\* pandas Index.unique(): distinct values in order of first appearance
RECURSIVE UniqueFrom(_, _)
UniqueFrom(s, seen) ==
    IF s = <<>> THEN <<>>
    ELSE IF Head(s) \in seen THEN UniqueFrom(Tail(s), seen)
         ELSE <<Head(s)>> \o UniqueFrom(Tail(s), seen \cup {Head(s)})
Unique(s) == UniqueFrom(s, {})

\* all sequences over S of length at most n
RECURSIVE SeqsUpTo(_, _)
SeqsUpTo(S, n) ==
    IF n = 0 THEN {<<>>}
    ELSE LET shorter == SeqsUpTo(S, n - 1)
         IN shorter \cup {Append(s, x) : s \in shorter, x \in S}

SeqRange(s) == {s[i] : i \in DOMAIN s}

(***************************************************************************)
(* ml/examples.py                                                          *)
(***************************************************************************)
VARIABLES
    \* ml/examples.py: an Examples instance and its caller
    heap,                     \* parameter dicts by identity (address)
    arg_params,               \* the params tuple handed to Examples(...)
    self_params,              \* Examples._params
    self_test_labels_params,  \* Examples._test_labels_params (an address)
    self_features,            \* Examples._features
    kinds,                    \* source data behind the feature providers
    epc,                      \* "new" before __init__, "ready" after
    ret,                      \* what the last call returned or raised
    label_days0,              \* history: label horizon given to Examples(...)
    \* ml/forecaster.py: validate_cache
    forecast,                 \* the cached Forecast
    forecast0,                \* history: the Forecast as it was first cached
    cache_call,               \* the last validate_cache call and its result
    \* ml/forecaster.py: validate_cov
    cov_in,                   \* arguments: cov and predict_pool_params["data"]
    cov_out,                  \* outcome of validate_cov(cov_in)
    \* store/moex.py: SecuritiesListing.__getitem__
    lock,                     \* holder of each lock object, 0 = free
    tpc,                      \* position of every thread
    inst,                     \* the SecuritiesListing instance each thread uses
    local_fresh,              \* up-to-date local copy of the listing exists
    downloads,                \* number of downloads of the listing file
    got,                      \* what each thread's last call returned
    ncalls,                   \* number of calls each thread has started
    \* store/moex.py: Quotes._download_many and _clean_up
    candles,                  \* what get_market_candles yields for each alias
    fut_done,                 \* futures that have finished
    data,                     \* rows gathered so far
    taken,                    \* number of futures whose result was taken
    qret                      \* result of _download_many, once returned

exVars == <<heap, arg_params, self_params, self_test_labels_params,
            self_features, kinds, epc, ret, label_days0>>
cacheVars == <<forecast, forecast0, cache_call>>
covVars == <<cov_in, cov_out>>
lockVars == <<lock, tpc, inst, local_fresh, downloads, got, ncalls>>
quoteVars == <<candles, fut_done, data, taken, qret>>
vars == <<exVars, cacheVars, covVars, lockVars, quoteVars>>

TRAIN_VAL_SPLIT_NUM == 9
TRAIN_VAL_SPLIT_DEN == 10

\* tickers and as-of date of the instance (test fixture "cases")
self_tickers == <<"SNGSP", "VSMO">>
self_date == MaxDate

NumTickers == Len(self_tickers)
NumRows == MaxDate * NumTickers
RowDate(i) == ((i - 1) \div NumTickers) + 1
RowTicker(i) == self_tickers[((i - 1) % NumTickers) + 1]

\* a parameter dict; only the "days" key is modelled, NoKey = key absent
NoKey == 0
Dict(d) == [days |-> d]

Predictive == {"Ticker", "Mom12m", "DivYield", "Mom1m"}

\* Feature provider interface (poptimizer.ml.feature)
ColNames(cls) == <<cls>>
IsCategorical(cls, feat_params) == <<cls = "Ticker">>
\* value of one provider for one (date, ticker) under the given params: the
\* label is the return over the next "days" dates and is missing where that
\* would look past the as-of date; the volatility of a (date, ticker) is
\* positive ("ok"), zero or missing ("nan")
ProviderGet(cls, feat_params, date, kind) ==
    CASE cls = "Label" ->
            <<IF date + feat_params.days <= self_date THEN 1 ELSE NaN>>
      [] cls = "Scaler" ->
            <<CASE kind = "nan" -> NaN [] kind = "zero" -> 0 [] OTHER -> 2>>
      [] OTHER -> <<1>>

\* 1 / scaler ** 2 as a fraction <<num, den>>; <<1, 0>> is inf, <<0, 0>> is nan
Weight(scaler) == IF scaler = NaN THEN <<0, 0>> ELSE <<1, scaler * scaler>>

\* the dict of catboost.Pool arguments built from a block of rows
PoolParams(rows, columns, with_label, cats) ==
    [data |-> [i \in DOMAIN rows |->
                 [date |-> rows[i].date, ticker |-> rows[i].ticker,
                  vals |-> PyTail(rows[i].vals, 2)]],
     has_label |-> with_label,
     label |-> IF with_label THEN [i \in DOMAIN rows |-> rows[i].vals[2]] ELSE <<>>,
     weight |-> [i \in DOMAIN rows |-> Weight(rows[i].vals[3])],
     cat_features |-> cats,
     feature_names |-> PyTail(columns, 2)]

\* the shape of ret; every call fills in the fields it returns
NoPool == PoolParams(<<>>, <<>>, FALSE, {})
NoRet == [op |-> "", raised |-> "", arg |-> <<>>, value |-> <<>>,
          calls |-> <<>>, columns |-> <<>>, rows |-> <<>>,
          train |-> NoPool, val |-> NoPool, predict |-> NoPool]

\* copy.deepcopy of a parameter dict: a new object with equal content
\* (DeepCopyAlias: plain assignment, the same object under a second name)
DeepCopyAlias(h, a) == [heap |-> h, addr |-> a]
DeepCopy(h, a) == [heap |-> Append(h, h[a]), addr |-> Len(h) + 1]

\* a params tuple with its dicts read out of the heap
Resolve(params) == [j \in DOMAIN params |-> <<params[j][1], heap[params[j][2]]>>]

\* Examples.__init__
Construct ==
    /\ epc = "new"
    /\ LET cp == DeepCopy(heap, arg_params[1][2])
           h2 == [cp.heap EXCEPT ![cp.addr] = [@ EXCEPT !.days = 1]]
       IN /\ heap' = h2
          /\ self_test_labels_params' = cp.addr
          /\ self_features' =
                <<[cls |-> arg_params[1][1], params |-> cp.addr]>> \o
                [j \in DOMAIN arg_params |->
                    [cls |-> arg_params[j][1], params |-> arg_params[j][2]]]
    /\ self_params' = arg_params
    /\ epc' = "ready"
    /\ ret' = [NoRet EXCEPT !.op = "__init__"]
    /\ UNCHANGED <<arg_params, kinds, label_days0>>
    /\ UNCHANGED <<cacheVars, covVars, lockVars, quoteVars>>

\* Examples.get_features_names
\* (FeaturesNamesNoScaler: the slice taken one provider later)
FeaturesNamesNoScaler(feats) ==
    Flatten([j \in 1..(Len(PyTail(feats, 3))) |-> ColNames(PyTail(feats, 3)[j].cls)])
FeaturesNames(feats) ==
    Flatten([j \in 1..(Len(PyTail(feats, 2))) |-> ColNames(PyTail(feats, 2)[j].cls)])

GetFeaturesNames ==
    /\ epc = "ready"
    /\ ret' = [NoRet EXCEPT !.op = "get_features_names",
                            !.value = FeaturesNames(self_features)]
    /\ UNCHANGED <<heap, arg_params, self_params, self_test_labels_params,
                   self_features, kinds, epc, label_days0>>
    /\ UNCHANGED <<cacheVars, covVars, lockVars, quoteVars>>

\* Examples.categorical_features
CategoricalFeatures(params) ==
    LET feats == PyTail(self_features, 2)
        ps == PyTail(params, 1)
        n == Min(Len(feats), Len(ps))
        cat_flag == Flatten([j \in 1..n |-> IsCategorical(feats[j].cls, ps[j][2])])
    IN {k - 1 : k \in {i \in DOMAIN cat_flag : cat_flag[i]}}

\* Examples.get_all: the providers called, with the params each one got
GetAllCalls(params) ==
    <<[cls |-> self_features[1].cls, params |-> heap[self_test_labels_params]]>> \o
    [j \in 1..Min(Len(self_features) - 1, Len(params)) |->
        [cls |-> self_features[j + 1].cls, params |-> params[j][2]]]

\* Examples.get_all: the joined frame (pd.concat(data, axis=1))
GetAll(params) ==
    LET calls == GetAllCalls(params)
    IN [calls |-> calls,
        columns |-> Flatten([j \in DOMAIN calls |-> ColNames(calls[j].cls)]),
        rows |-> [i \in 1..NumRows |->
                    [date |-> RowDate(i), ticker |-> RowTicker(i),
                     vals |-> Flatten([j \in DOMAIN calls |->
                                ProviderGet(calls[j].cls, calls[j].params,
                                            RowDate(i), kinds[i])])]]]

\* DataFrame.dropna(axis=0) (DropNaOff: the frame left as it is)
Complete(row) == \A j \in DOMAIN row.vals : row.vals[j] # NaN
DropNaOff(df) == df
DropNa(df) == [df EXCEPT !.rows = SelectSeq(df.rows, Complete)]

Dates(rows) == [i \in DOMAIN rows |-> rows[i].date]

\* Examples.get_all as a call of its own
GetAllCall(p) ==
    /\ epc = "ready"
    /\ LET df == GetAll(p)
       IN ret' = [NoRet EXCEPT !.op = "get_all", !.arg = p, !.calls = df.calls,
                               !.columns = df.columns, !.rows = df.rows]
    /\ UNCHANGED <<heap, arg_params, self_params, self_test_labels_params,
                   self_features, kinds, epc, label_days0>>
    /\ UNCHANGED <<cacheVars, covVars, lockVars, quoteVars>>

\* int(len(dates) * TRAIN_VAL_SPLIT)
SplitPos(n) == (n * TRAIN_VAL_SPLIT_NUM) \div TRAIN_VAL_SPLIT_DEN

\* dates[dates < val_start].unique()[-label_days]: the index handed to []
TrainEndIndex(label_days) == -label_days

\* df[dates >= val_start]
ValBlock(rows, val_start) == SelectSeq(rows, LAMBDA r : r.date >= val_start)

\* df.loc[dates <= train_end] (TrainBlockStrict: with < instead)
TrainBlockStrict(rows, train_end) == SelectSeq(rows, LAMBDA r : r.date < train_end)
TrainBlock(rows, train_end) == SelectSeq(rows, LAMBDA r : r.date <= train_end)

\* df.loc[dates == self._date]
PredictBlock(rows, date) == SelectSeq(rows, LAMBDA r : r.date = date)

\* Examples.train_val_pool_params, lines 91-107: the training block and
\* the two pools
TrainValPools(base, params, df, dates, val_start, df_val, pre) ==
    IF ~PyIndexOk(pre, TrainEndIndex(params[1][2].days))
    THEN [base EXCEPT !.raised = "IndexError"]
    ELSE LET train_end == PyIndex(pre, TrainEndIndex(params[1][2].days))
             df_train == TrainBlock(df.rows, train_end)
             cats == CategoricalFeatures(params)
         IN [base EXCEPT
               !.train = PoolParams(df_train, df.columns, TRUE, cats),
               !.val = PoolParams(df_val, df.columns, TRUE, cats)]

\* Examples.train_val_pool_params, lines 88-90: the validation block
TrainValSplit(base, params, df, dates, val_start) ==
    TrainValPools(base, params, df, dates, val_start,
                  ValBlock(df.rows, val_start),
                  Unique(SelectSeq(dates, LAMBDA d : d < val_start)))

\* Examples.train_val_pool_params, lines 86-88: the frame of complete rows
TrainValFrame(params, df, dates) ==
    LET base == [NoRet EXCEPT !.op = "train_val_pool_params", !.arg = params,
                              !.rows = df.rows, !.columns = df.columns,
                              !.calls = df.calls]
    IN IF ~PyIndexOk(dates, SplitPos(Len(dates)))
       THEN [base EXCEPT !.raised = "IndexError"]
       ELSE TrainValSplit(base, params, df, dates,
                          PyIndex(dates, SplitPos(Len(dates))))

\* Examples.train_val_pool_params; p = <<>> stands for params=None
TrainValPoolParamsDf(params, df) == TrainValFrame(params, df, Dates(df.rows))
TrainValPoolParamsRet(p) ==
    LET params == IF p = <<>> THEN Resolve(self_params) ELSE p
    IN TrainValPoolParamsDf(params, DropNa(GetAll(params)))

TrainValPoolParams(p) ==
    /\ epc = "ready"
    /\ ret' = TrainValPoolParamsRet(p)
    /\ UNCHANGED <<heap, arg_params, self_params, self_test_labels_params,
                   self_features, kinds, epc, label_days0>>
    /\ UNCHANGED <<cacheVars, covVars, lockVars, quoteVars>>

\* Examples.train_predict_pool_params
TrainPredictPools(params, all, df) ==
    LET df_predict == PredictBlock(all.rows, self_date)
        cats == CategoricalFeatures(params)
    IN [NoRet EXCEPT
          !.op = "train_predict_pool_params", !.arg = params,
          !.rows = all.rows, !.columns = all.columns, !.calls = all.calls,
          !.predict = PoolParams(df_predict, all.columns, FALSE, cats),
          !.train = PoolParams(df.rows, df.columns, TRUE, cats)]
TrainPredictFrame(params, all) == TrainPredictPools(params, all, DropNa(all))
TrainPredictPoolParamsRet ==
    TrainPredictFrame(Resolve(self_params), GetAll(Resolve(self_params)))

TrainPredictPoolParams ==
    /\ epc = "ready"
    /\ ret' = TrainPredictPoolParamsRet
    /\ UNCHANGED <<heap, arg_params, self_params, self_test_labels_params,
                   self_features, kinds, epc, label_days0>>
    /\ UNCHANGED <<cacheVars, covVars, lockVars, quoteVars>>

\* params tuples a caller (the hyper-parameter search) hands in: the stored
\* providers with another label horizon
Tuned(L) == [Resolve(arg_params) EXCEPT ![1] = <<"Label", Dict(L)>>]
TunedParams == {Tuned(L) : L \in 1..MaxLabelDays}
\* any integer horizon, for train_val_pool_params: also zero and negative
AnyHorizon == {Tuned(L) : L \in {-1, 0} \cup (1..MaxLabelDays)}

\* the params tuples handed to the constructor
PredLists == {s \in SeqsUpTo(Predictive, MaxFeatures) :
                 \A i, j \in DOMAIN s : i # j => s[i] # s[j]}

ParamsOf(pl) ==
    <<<<"Label", 1>>, <<"Scaler", 2>>>> \o [j \in DOMAIN pl |-> <<pl[j], 2 + j>>]
HeapOf(L, pl) ==
    <<Dict(L), Dict(3)>> \o
    [j \in DOMAIN pl |-> IF pl[j] = "Ticker" THEN Dict(NoKey) ELSE Dict(1)]

AllOk == [i \in 1..NumRows |-> "ok"]
\* source data: at most MaxBad (date, ticker) pairs have a zero or a missing
\* volatility, all others a positive one
BadRows == {S \in SUBSET (1..NumRows) : Cardinality(S) <= MaxBad}
DataSets == UNION {{[i \in 1..NumRows |-> IF i \in Z THEN "zero"
                                           ELSE IF i \in B THEN "nan" ELSE "ok"] :
                      Z \in SUBSET B} : B \in BadRows}

InitExamples(L, pl, k) ==
    /\ heap = HeapOf(L, pl)
    /\ arg_params = ParamsOf(pl)
    /\ self_params = <<>>
    /\ self_test_labels_params = 0
    /\ self_features = <<>>
    /\ kinds = k
    /\ epc = "new"
    /\ ret = NoRet
    /\ label_days0 = L

InitParams ==
    \E L \in 1..MaxLabelDays, pl \in PredLists : InitExamples(L, pl, AllOk)

InitData ==
    \E k \in DataSets : InitExamples(MaxLabelDays, <<"Ticker">>, k)

NextExamples ==
    \/ Construct
    \/ GetFeaturesNames
    \/ \E p \in TunedParams : GetAllCall(p)
    \/ \E p \in AnyHorizon \cup {<<>>} : TrainValPoolParams(p)
    \/ TrainPredictPoolParams

(***************************************************************************)
(* ml/forecaster.py: validate_cache (exercised by test_validate_cache and  *)
(* test_non_validate_cache)                                                *)
(***************************************************************************)
CacheTickers == {"RTKM", "UPRO", "DSKY"}
TickerTuples == {t \in SeqsUpTo(CacheTickers, MaxCacheTickers) :
                    /\ Len(t) >= 1
                    /\ \A i, j \in DOMAIN t : i # j => t[i] # t[j]}

\* the PARAMS dict of the tests: provider list and model hyper-parameters;
\* id is the identity of the dict object, val its content
ParamsVal(days, rate) ==
    [data |-> <<<<"Label", Dict(days)>>, <<"Scaler", Dict(3)>>, <<"Ticker", Dict(NoKey)>>>>,
     model |-> [depth |-> 6, learning_rate |-> rate]]

Forecasts ==
    {[date |-> d, tickers |-> t, params |-> [id |-> 1, val |-> ParamsVal(days, rate)]] :
        d \in 2..3, t \in TickerTuples, days \in 1..MaxLabelDays, rate \in {10, 11}}

\* Python == on two params objects (deep equality of content); PyIs is the
\* identity comparison `is`
PyIs(a, b) == a.id = b.id
PyEq(a, b) == a.val = b.val

validate_cache(forecast_cache, tickers, date, params) ==
    /\ tickers = forecast_cache.tickers
    /\ date = forecast_cache.date
    /\ PyEq(params, forecast_cache.params)

\* the requests of the tests: the cached key with one or more parts edited
Reverse(t) == [i \in DOMAIN t |-> t[Len(t) + 1 - i]]
TickerEdits(t) == {"same", "add", "remove"} \cup (IF Len(t) >= 2 THEN {"reverse"} ELSE {})
EditTickers(t, e) ==
    CASE e = "add" -> Append(t, "FEES")
      [] e = "remove" -> SubSeq(t, 1, Len(t) - 1)
      [] e = "reverse" -> Reverse(t)
      [] OTHER -> t
EditDate(d, e) == IF e = "earlier" THEN d - 1 ELSE d
\* copy.deepcopy(PARAMS), then possibly one nested value changed
EditParams(prm, e) ==
    CASE e = "same" -> prm
      [] e = "copy" -> [id |-> prm.id + 1, val |-> prm.val]
      [] e = "hyper" ->
            [id |-> prm.id + 1,
             val |-> [prm.val EXCEPT !.model.learning_rate = @ + 1]]
      [] OTHER ->
            [id |-> prm.id + 1,
             val |-> [prm.val EXCEPT !.data[1] = <<"Label", Dict(@[2].days + 1)>>]]

NoCall == [op |-> "", te |-> "", de |-> "", pe |-> "", value |-> FALSE]

ValidateCacheCall(te, de, pe) ==
    /\ cache_call' =
          [op |-> "validate_cache", te |-> te, de |-> de, pe |-> pe,
           value |-> validate_cache(forecast,
                                    EditTickers(forecast.tickers, te),
                                    EditDate(forecast.date, de),
                                    EditParams(forecast.params, pe))]
    /\ UNCHANGED <<forecast, forecast0>>
    /\ UNCHANGED <<exVars, covVars, lockVars, quoteVars>>

NextCache ==
    \E te \in TickerEdits(forecast.tickers), de \in {"same", "earlier"},
       pe \in {"same", "copy", "hyper", "data"} : ValidateCacheCall(te, de, pe)

(***************************************************************************)
(* ml/forecaster.py: validate_cov (exercised by test_validate_cov_error)   *)
(* Covariances are fixed-point numbers in units of 1/Scale.                *)
(***************************************************************************)
Scale == 10
RTOL_NUM == 1
RTOL_DEN == 100
NumSec == 3

Abs(x) == IF x < 0 THEN 0 - x ELSE x
\* a is within the relative tolerance of b
Close(a, b) == Abs(a - b) * RTOL_DEN <= RTOL_NUM * Abs(b)

\* predict_pool_params["data"].iloc[:, 0] ** 2, in units of 1/Scale
\* (BasisNoSquare: the column itself)
BasisNoSquare(pool_data) == [i \in DOMAIN pool_data |-> Scale * pool_data[i][1]]
Basis(pool_data) == [i \in DOMAIN pool_data |-> Scale * pool_data[i][1] * pool_data[i][1]]

\* the message of the error (in Russian in the source), in translation
COV_MESSAGE == "computed covariance does not match the one used for normalisation"

validate_cov(cov, pool_data) ==
    IF \A i \in DOMAIN pool_data : Close(cov[i][i], Basis(pool_data)[i])
    THEN [done |-> TRUE, raised |-> "", message |-> ""]
    ELSE [done |-> TRUE, raised |-> "POptimizerError", message |-> COV_MESSAGE]

CovInputs ==
    {[cov |-> [i \in 1..NumSec |-> [j \in 1..NumSec |->
                  IF i = j THEN Scale * s[i] * s[i] + dev[i] ELSE off]],
      data |-> [i \in 1..NumSec |-> <<s[i], 0>>]] :
        s \in [1..NumSec -> 1..MaxScaler], dev \in [1..NumSec -> {-1, 0, 1}],
        off \in {0, 5}}

ValidateCovCall ==
    /\ ~cov_out.done
    /\ cov_out' = validate_cov(cov_in.cov, cov_in.data)
    /\ UNCHANGED cov_in
    /\ UNCHANGED <<exVars, cacheVars, lockVars, quoteVars>>

NextCov == ValidateCovCall

(***************************************************************************)
(* store/moex.py: SecuritiesListing.__getitem__                            *)
(***************************************************************************)
Threads == 1..NumThreads
Instances == {"listing_1", "listing_2"}

\* self._GET_ITEM_LOCK: the lock object an instance reaches, a class
\* attribute shared by all instances (LockPerInstance: one lock per instance)
LockPerInstance(i) == i
LockOf(i) == "SecuritiesListing._GET_ITEM_LOCK"
Locks == {LockOf(i) : i \in Instances}

InParent == {"check", "download", "save", "return"}

\* a thread ncalls SecuritiesListing(...)[LISTING]
Call(t, i) ==
    /\ tpc[t] = "idle"
    /\ ncalls[t] < MaxCalls
    /\ tpc' = [tpc EXCEPT ![t] = "acquire"]
    /\ inst' = [inst EXCEPT ![t] = i]
    /\ ncalls' = [ncalls EXCEPT ![t] = @ + 1]
    /\ UNCHANGED <<lock, local_fresh, downloads, got>>
    /\ UNCHANGED <<exVars, cacheVars, covVars, quoteVars>>

\* with self._GET_ITEM_LOCK: (entry)
Acquire(t) ==
    /\ tpc[t] = "acquire"
    /\ lock[LockOf(inst[t])] = 0
    /\ lock' = [lock EXCEPT ![LockOf(inst[t])] = t]
    /\ tpc' = [tpc EXCEPT ![t] = "check"]
    /\ UNCHANGED <<inst, local_fresh, downloads, got, ncalls>>
    /\ UNCHANGED <<exVars, cacheVars, covVars, quoteVars>>

\* super().__getitem__(item): is the local copy up to date?
CheckLocal(t) ==
    /\ tpc[t] = "check"
    /\ tpc' = [tpc EXCEPT ![t] = IF local_fresh THEN "return" ELSE "download"]
    /\ UNCHANGED <<lock, inst, local_fresh, downloads, got, ncalls>>
    /\ UNCHANGED <<exVars, cacheVars, covVars, quoteVars>>

\* super().__getitem__(item): self._download(item, None)
Download(t) ==
    /\ tpc[t] = "download"
    /\ downloads' = downloads + 1
    /\ tpc' = [tpc EXCEPT ![t] = "save"]
    /\ UNCHANGED <<lock, inst, local_fresh, got, ncalls>>
    /\ UNCHANGED <<exVars, cacheVars, covVars, quoteVars>>

\* super().__getitem__(item): the downloaded listing replaces the local copy
SaveLocal(t) ==
    /\ tpc[t] = "save"
    /\ local_fresh' = TRUE
    /\ tpc' = [tpc EXCEPT ![t] = "return"]
    /\ UNCHANGED <<lock, inst, downloads, got, ncalls>>
    /\ UNCHANGED <<exVars, cacheVars, covVars, quoteVars>>

\* return of the local copy; leaving the with block releases the lock
ReturnItem(t) ==
    /\ tpc[t] = "return"
    /\ got' = [got EXCEPT ![t] = IF local_fresh THEN "fresh" ELSE "stale"]
    /\ lock' = [lock EXCEPT ![LockOf(inst[t])] = 0]
    /\ tpc' = [tpc EXCEPT ![t] = "idle"]
    /\ UNCHANGED <<inst, local_fresh, downloads, ncalls>>
    /\ UNCHANGED <<exVars, cacheVars, covVars, quoteVars>>

NextListing ==
    \/ \E t \in Threads, i \in Instances : Call(t, i)
    \/ \E t \in Threads : Acquire(t)
    \/ \E t \in Threads : CheckLocal(t)
    \/ \E t \in Threads : Download(t)
    \/ \E t \in Threads : SaveLocal(t)
    \/ \E t \in Threads : ReturnItem(t)

(***************************************************************************)
(* store/moex.py: Quotes._download_many and Quotes._clean_up               *)
(***************************************************************************)
Aliases == <<"UPRO", "OGK4">>
NumAliases == Len(Aliases)
Begins == {1, 2, 3}
Turnovers == {100, 200}

\* the candles of one alias as apimoex.get_market_candles returns them
CandleRows(a) == {[begin |-> b, value |-> v, secid |-> Aliases[a]] :
                     b \in Begins, v \in Turnovers}

\* key=lambda x: (x["begin"], -x["value"]) : a sorts strictly before b
\* (KeyLessAscValue: the key (x["begin"], x["value"]))
KeyLessAscValue(a, b) ==
    \/ a.begin < b.begin
    \/ a.begin = b.begin /\ a.value < b.value
KeyLess(a, b) ==
    \/ a.begin < b.begin
    \/ a.begin = b.begin /\ (0 - a.value) < (0 - b.value)

\* list.sort(key=...): a stable sort
RECURSIVE InsertStable(_, _)
InsertStable(sorted, x) ==
    IF sorted = <<>> THEN <<x>>
    ELSE IF KeyLess(x, Head(sorted)) THEN <<x>> \o sorted
         ELSE <<Head(sorted)>> \o InsertStable(Tail(sorted), x)
RECURSIVE SortRows(_)
SortRows(rows) ==
    IF rows = <<>> THEN <<>>
    ELSE InsertStable(SortRows(SubSeq(rows, 1, Len(rows) - 1)), rows[Len(rows)])

\* the loop of _clean_up over the sorted rows
RECURSIVE KeepFirstOfBegin(_, _)
KeepFirstOfBegin(rows, data_clean) ==
    IF rows = <<>> THEN data_clean
    ELSE IF data_clean = <<>> \/ data_clean[Len(data_clean)].begin # Head(rows).begin
         THEN KeepFirstOfBegin(Tail(rows), Append(data_clean, Head(rows)))
         ELSE KeepFirstOfBegin(Tail(rows), data_clean)

\* Quotes._clean_up
CleanUp(rows) == KeepFirstOfBegin(SortRows(rows), <<>>)

\* a download thread of the pool finishes (in any order)
FinishDownload(a) ==
    /\ a \notin fut_done
    /\ fut_done' = fut_done \cup {a}
    /\ UNCHANGED <<candles, data, taken, qret>>
    /\ UNCHANGED <<exVars, cacheVars, covVars, lockVars>>

\* data.extend(future.result()) for the next future, in alias order
TakeResult ==
    /\ taken < NumAliases
    /\ (taken + 1) \in fut_done
    /\ data' = data \o candles[taken + 1]
    /\ taken' = taken + 1
    /\ UNCHANGED <<candles, fut_done, qret>>
    /\ UNCHANGED <<exVars, cacheVars, covVars, lockVars>>

\* return self._clean_up(data)
ReturnCleanUp ==
    /\ taken = NumAliases
    /\ ~qret.done
    /\ qret' = [done |-> TRUE, value |-> CleanUp(data)]
    /\ UNCHANGED <<candles, fut_done, data, taken>>
    /\ UNCHANGED <<exVars, cacheVars, covVars, lockVars>>

NextQuotes ==
    \/ \E a \in 1..NumAliases : FinishDownload(a)
    \/ TakeResult
    \/ ReturnCleanUp

(***************************************************************************)
(* Initial states and specifications, one per component                    *)
(***************************************************************************)
IdleExamples == InitExamples(MaxLabelDays, <<"Ticker">>, AllOk)
IdleCache ==
    /\ forecast = [date |-> 3, tickers |-> <<"RTKM", "UPRO", "DSKY">>,
                   params |-> [id |-> 1, val |-> ParamsVal(1, 10)]]
    /\ forecast0 = forecast
    /\ cache_call = NoCall
IdleCov ==
    /\ cov_in = [cov |-> <<<<10, 0, 0>>, <<0, 40, 0>>, <<0, 0, 91>>>>,
                 data |-> <<<<1, 0>>, <<2, 0>>, <<3, 0>>>>]
    /\ cov_out = [done |-> FALSE, raised |-> "", message |-> ""]
IdleListing ==
    /\ lock = [l \in Locks \cup Instances |-> 0]
    /\ tpc = [t \in Threads |-> "idle"]
    /\ inst = [t \in Threads |-> "listing_1"]
    /\ local_fresh = FALSE
    /\ downloads = 0
    /\ got = [t \in Threads |-> "none"]
    /\ ncalls = [t \in Threads |-> 0]
IdleQuotes ==
    /\ candles = [a \in 1..NumAliases |-> <<>>]
    /\ fut_done = {}
    /\ data = <<>>
    /\ taken = 0
    /\ qret = [done |-> FALSE, value |-> <<>>]

InitCache ==
    /\ forecast \in Forecasts
    /\ forecast0 = forecast
    /\ cache_call = NoCall
InitCov ==
    /\ cov_in \in CovInputs
    /\ cov_out = [done |-> FALSE, raised |-> "", message |-> ""]
\* the responses for the aliases a, a+1, ... holding at most n rows in all
RECURSIVE Responses(_, _)
Responses(a, n) ==
    IF a > NumAliases THEN {<<>>}
    ELSE UNION {{<<c>> \o rest : rest \in Responses(a + 1, n - Len(c))} :
                   c \in SeqsUpTo(CandleRows(a), n)}
InitQuotes ==
    /\ candles \in Responses(1, MaxCandles)
    /\ fut_done = {}
    /\ data = <<>>
    /\ taken = 0
    /\ qret = [done |-> FALSE, value |-> <<>>]

StartParams == InitParams /\ IdleCache /\ IdleCov /\ IdleListing /\ IdleQuotes
StartData == InitData /\ IdleCache /\ IdleCov /\ IdleListing /\ IdleQuotes
StartCache == IdleExamples /\ InitCache /\ IdleCov /\ IdleListing /\ IdleQuotes
StartCov == IdleExamples /\ IdleCache /\ InitCov /\ IdleListing /\ IdleQuotes
StartListing == IdleExamples /\ IdleCache /\ IdleCov /\ IdleListing /\ IdleQuotes
StartQuotes == IdleExamples /\ IdleCache /\ IdleCov /\ IdleListing /\ InitQuotes

SpecParams == StartParams /\ [][NextExamples]_vars
SpecData == StartData /\ [][NextExamples]_vars
SpecCache == StartCache /\ [][NextCache]_vars
SpecCov == StartCov /\ [][NextCov]_vars
SpecListing == StartListing /\ [][NextListing]_vars
SpecQuotes == StartQuotes /\ [][NextQuotes]_vars

(***************************************************************************)
(* Properties of ml/examples.py                                            *)
(***************************************************************************)
Returned(op) == ret.op = op /\ ret.raised = ""
PoolDates(pool) == {pool.data[i].date : i \in DOMAIN pool.data}
PoolKeys(pool) == {<<pool.data[i].date, pool.data[i].ticker>> : i \in DOMAIN pool.data}
SetMax(S) == CHOOSE x \in S : \A y \in S : y <= x
\* the label horizon params[0][1]["days"] of the call
RetLabelDays == ret.arg[1][2].days
\* the distinct dates of complete rows before the validation block
PreSplitDates == {ret.rows[i].date : i \in DOMAIN ret.rows} \ PoolDates(ret.val)
\* the n-th largest element of a set of integers
RECURSIVE NthLargest(_, _)
NthLargest(S, n) == IF n = 1 THEN SetMax(S) ELSE NthLargest(S \ {SetMax(S)}, n - 1)

\* C1: whenever train_val_pool_params returns with label horizon L >= 1, the
\* maximum date of the training block is strictly earlier than the date lying
\* L distinct dates before the validation block's minimum date, i.e. the last
\* L distinct pre-split dates are all excluded from training.
C1_TrainEndsBeforeLabelWindow ==
    (Returned("train_val_pool_params") /\ RetLabelDays >= 1) =>
        /\ Cardinality(PreSplitDates) >= RetLabelDays
        /\ \A d \in PoolDates(ret.train) :
              d < NthLargest(PreSplitDates, RetLabelDays)

\* C2: in every pool of train_val_pool_params and train_predict_pool_params
\* the weight 1/scaler^2 is computed only for rows whose scaler is present
\* and non-zero.
ScalerValid(pool) ==
    \A i \in DOMAIN pool.data :
        /\ pool.data[i].vals[1] # NaN
        /\ pool.data[i].vals[1] # 0
        /\ pool.weight[i][2] # 0
C2_WeightOnlyOnValidScaler ==
    (Returned("train_val_pool_params") \/ Returned("train_predict_pool_params")) =>
        ScalerValid(ret.train) /\ ScalerValid(ret.val) /\ ScalerValid(ret.predict)

\* the names of the providers given to the constructor from position k (0-based)
ProviderNamesFrom(k) == [j \in 1..(Len(arg_params) - k) |-> arg_params[j + k][1]]
FullColumns == GetAll(Resolve(self_params)).columns

\* C3 (as stated): get_features_names() returns the column names of the
\* predictive providers only, without the test-label, label and scaler
\* columns, so its length is the full-dataset column count minus 3.
C3_FeatureNamesExcludeScaler ==
    ret.op = "get_features_names" =>
        /\ ret.value = ProviderNamesFrom(2)
        /\ Len(ret.value) = Len(FullColumns) - 3

\* C3 (amended): get_features_names() returns the column names of the scaler
\* provider followed by those of the predictive providers in provider order
\* (only the two label columns are left out), its length is the full-dataset
\* column count minus 2, and it equals the feature_names and the width of the
\* data block of the pools built from params with one entry per provider.
PoolMatchesNames(pool) ==
    /\ pool.feature_names = FeaturesNames(self_features)
    /\ \A i \in DOMAIN pool.data : Len(pool.data[i].vals) = Len(pool.feature_names)
C3_FeatureNamesFromScaler ==
    /\ ret.op = "get_features_names" =>
          /\ ret.value = ProviderNamesFrom(1)
          /\ ret.value[1] = "Scaler"
          /\ Len(ret.value) = Len(FullColumns) - 2
    /\ Returned("train_val_pool_params") =>
          PoolMatchesNames(ret.train) /\ PoolMatchesNames(ret.val)
    /\ Returned("train_predict_pool_params") =>
          PoolMatchesNames(ret.train) /\ PoolMatchesNames(ret.predict)
C3_Witness ==
    /\ ret.op = "get_features_names"
    /\ Len(ret.value) = 3
    /\ ret.value[2] = "Mom12m"

\* C4: the joined dataset's columns are in the order [test-label,
\* production-label, scaler, predictive columns...], the test-label column is
\* computed with days = 1 whatever horizon the constructor or get_all is
\* given, and building the test-label params leaves the production label's
\* own "days" as it was.
C4_ColumnOrderAndTestLabel ==
    /\ epc = "ready" =>
          /\ heap[self_params[1][2]].days = label_days0
          /\ heap[self_test_labels_params].days = 1
    /\ ret.op = "get_all" =>
          /\ Len(ret.calls) = Len(arg_params) + 1
          /\ ret.calls[1] = [cls |-> "Label", params |-> Dict(1)]
          /\ ret.calls[2] = [cls |-> "Label", params |-> ret.arg[1][2]]
          /\ ret.calls[3].cls = "Scaler"
          /\ \A j \in 4..Len(ret.calls) :
                /\ ret.calls[j].cls \in Predictive
                /\ ret.calls[j].cls = arg_params[j - 1][1]
          /\ ret.columns = [j \in DOMAIN ret.calls |-> ret.calls[j].cls]
C4_Witness ==
    /\ ret.op = "get_all"
    /\ label_days0 = 2
    /\ ret.arg[1][2].days = 2
    /\ Len(ret.columns) = 5

\* C7: train_predict_pool_params returns a prediction pool of exactly the
\* rows of the full dataset dated at the as-of date (label None, rows with
\* missing values kept) and a training pool of exactly the rows at other
\* dates without a missing value; no as-of row is in the training pool.
FrameKeys(P(_)) ==
    {<<ret.rows[i].date, ret.rows[i].ticker>> : i \in {j \in DOMAIN ret.rows : P(ret.rows[j])}}
C7_PredictAndTrainRows ==
    ret.op = "train_predict_pool_params" =>
        /\ ret.raised = ""
        /\ ~ret.predict.has_label
        /\ PoolKeys(ret.predict) = FrameKeys(LAMBDA r : r.date = self_date)
        /\ Len(ret.predict.data) = Cardinality(PoolKeys(ret.predict))
        /\ PoolKeys(ret.predict) = {<<self_date, self_tickers[t]>> : t \in DOMAIN self_tickers}
        /\ PoolKeys(ret.train) =
              FrameKeys(LAMBDA r : r.date # self_date /\ Complete(r))
        /\ Len(ret.train.data) = Cardinality(PoolKeys(ret.train))
        /\ self_date \notin PoolDates(ret.train)
C7_Witness ==
    /\ ret.op = "train_predict_pool_params"
    /\ \E i \in DOMAIN ret.predict.data : ret.predict.data[i].vals[1] = NaN
    /\ \E i \in DOMAIN ret.predict.data : ret.predict.data[i].vals[1] = 2
    /\ Len(ret.train.data) >= 2

\* C10: whenever train_val_pool_params returns, the training and the
\* validation block both have at least one row, for every integer label
\* horizon; with no complete row, or fewer distinct pre-split dates than the
\* label horizon, it raises IndexError and returns no pools.
SplitDate == ret.rows[((Len(ret.rows) * 9) \div 10) + 1].date
DatesBeforeSplit == {ret.rows[i].date : i \in {j \in DOMAIN ret.rows : ret.rows[j].date < SplitDate}}
C5_ValidateCacheIffSameKey ==
    /\ forecast = forecast0
    /\ cache_call.op = "validate_cache" =>
          (cache_call.value <=>
              /\ cache_call.te = "same"
              /\ cache_call.de = "same"
              /\ cache_call.pe \in {"same", "copy"})
C5_Witness ==
    /\ cache_call.op = "validate_cache"
    /\ cache_call.value
    /\ cache_call.pe = "copy"
    /\ Len(forecast.tickers) = 2

\* C6: validate_cov passes when every diagonal entry of cov equals the square
\* of the matching entry of column 0 of the pool's data, and raises
\* POptimizerError with the mismatch message when a diagonal entry differs
\* from that square by more than the tolerance (as diagonal [1, 4, 9.1]
\* against [1, 2, 3]); the off-diagonal entries do not matter.
Square(i) == Scale * cov_in.data[i][1] * cov_in.data[i][1]
DiagOnly(cov) == [i \in DOMAIN cov |-> [j \in DOMAIN cov |-> IF i = j THEN cov[i][j] ELSE 0]]
C6_ValidateCovDiagonal ==
    cov_out.done =>
        /\ (\A i \in 1..NumSec : cov_in.cov[i][i] = Square(i)) => cov_out.raised = ""
        /\ (\E i \in 1..NumSec :
               Abs(cov_in.cov[i][i] - Square(i)) * RTOL_DEN > RTOL_NUM * Square(i)) =>
              /\ cov_out.raised = "POptimizerError"
              /\ cov_out.message = COV_MESSAGE
        /\ (\A i \in 1..NumSec : cov_in.cov[i][i] = <<10, 40, 91>>[i]
                                  /\ cov_in.data[i][1] = i) =>
              cov_out.raised = "POptimizerError"
        /\ cov_out = validate_cov(DiagOnly(cov_in.cov), cov_in.data)
C6_Witness ==
    /\ cov_out.done
    /\ cov_out.raised = "POptimizerError"
    /\ cov_in.cov = <<<<10, 5, 5>>, <<5, 40, 5>>, <<5, 5, 91>>>>
    /\ cov_in.data = <<<<1, 0>>, <<2, 0>>, <<3, 0>>>>

(***************************************************************************)
(* Properties of store/moex.py                                             *)
(***************************************************************************)
\* C8: with no up-to-date local data at the start, concurrent calls of
\* SecuritiesListing.__getitem__ on the same or on different instances run
\* one at a time under the class-level lock: never two threads inside the
\* parent __getitem__, the listing is downloaded exactly once, and every
\* later call finds and returns the updated local copy.
Inside == {t \in Threads : tpc[t] \in InParent}
C8_OneDownloadUnderLock ==
    /\ Cardinality(Inside) <= 1
    /\ downloads <= 1
    /\ \A t \in Threads : tpc[t] = "download" => downloads = 0
    /\ \A t \in Threads : got[t] # "none" => (got[t] = "fresh" /\ downloads = 1)
    /\ (local_fresh <=> (downloads = 1 /\ \A t \in Threads : tpc[t] # "save"))
C8_Witness ==
    /\ \A t \in Threads : got[t] = "fresh" /\ tpc[t] = "idle"
    /\ \E t, u \in Threads : inst[t] # inst[u]
    /\ \E t \in Threads : ncalls[t] = 2
    /\ downloads = 1

\* C9: Quotes._clean_up returns rows in strictly ascending order of "begin",
\* exactly one for each distinct "begin" of the input, and the row kept is
\* an input row with the largest "value" among the input rows of that
\* "begin"; so is the result of _download_many, in whatever order the
\* download threads finish.
InputRows == UNION {SeqRange(candles[a]) : a \in 1..NumAliases}
C9_CleanUpKeepsLargestTurnover ==
    qret.done =>
        /\ \A i \in 1..(Len(qret.value) - 1) : qret.value[i].begin < qret.value[i + 1].begin
        /\ {qret.value[i].begin : i \in DOMAIN qret.value} = {r.begin : r \in InputRows}
        /\ \A i \in DOMAIN qret.value :
              /\ qret.value[i] \in InputRows
              /\ \A r \in InputRows :
                    r.begin = qret.value[i].begin => r.value <= qret.value[i].value
C9_Witness ==
    /\ qret.done
    /\ Len(data) = 3
    /\ Len(qret.value) = 2
    /\ \E i \in 1..2 : data[i].begin > data[i + 1].begin
    /\ \E i, j \in DOMAIN data :
          /\ data[i].begin = data[j].begin
          /\ data[i].value < data[j].value
          /\ data[i].secid # data[j].secid

====
